---- MODULE Spec2Model ----
(***************************************************************************)
(* devenv-sandbox (src/devenv-sandbox/src/main.rs): a launcher that builds *)
(* a Landlock rule set, restricts itself with it, spawns the target        *)
(* command and exits with the command's exit code.                         *)
(*                                                                         *)
(* A path is the sequence of its components ("/" is <<>>).  The file       *)
(* system is a snapshot chosen at start; the kernel's Landlock ABI is part *)
(* of the environment.  The child process is modelled by the access        *)
(* attempts it makes and by how it terminates.                             *)
(***************************************************************************)
EXTENDS Integers, Sequences, FiniteSets, TLC

VARIABLES
    args,         \* env::args(): <<tool, command, arguments...>>
    env,          \* the process environment: variable name -> Result<String, VarError>
    fs,           \* the paths that exist
    kernelAbi,    \* Landlock ABI of the running kernel, 0 = no Landlock
    pc,           \* position of main
    devenv_root,  \* main's local devenv_root
    runtime_dir,  \* main's local runtime_dir
    home_dir,     \* main's local home_dir
    ruleset,      \* the Ruleset value threaded through the builder chain
    status,       \* the RulesetStatus returned by setup_landlock_sandbox
    domain,       \* the restriction the kernel enforces on this process and its descendants
    child,        \* the spawned command: "none", "running", "exited", "signaled"
    childCode,    \* exit code of an exited child
    lastAccess,   \* the child's file-system access attempt in progress and its verdict
    exitCode,     \* Some(exit code) once the tool has exited, None while it runs
    failedStep,   \* the builder call of setup_landlock_sandbox that returned an error, or "none"
    restrictCalls,\* number of restrict_self calls made
    spawnCalls,   \* number of spawn attempts made
    spawnDomain,  \* the restriction in force at the spawn attempt
    childArgv     \* the command and arguments handed to the spawn attempt

vars == <<args, env, fs, kernelAbi, pc, devenv_root, runtime_dir, home_dir, ruleset,
          status, domain, child, childCode, lastAccess, exitCode, failedStep,
          restrictCalls, spawnCalls, spawnDomain, childArgv>>

(***************************************************************************)
(* Bounds of the model.                                                    *)
(***************************************************************************)
\* kernels with Landlock ABI 0 .. MaxKernelAbi are considered
MaxKernelAbi == 3
\* at most this many of the removable paths are missing from the file system
MaxMissing == 2
\* the child exits with a code in 0 .. MaxChildCode, or with 42 or 255
MaxChildCode == 1

(***************************************************************************)
(* Paths.                                                                  *)
(***************************************************************************)
IsPrefix(p, q) == Len(p) <= Len(q) /\ SubSeq(q, 1, Len(p)) = p

Parent(p) == IF p = <<>> THEN <<>> ELSE SubSeq(p, 1, Len(p) - 1)

Dirs == { <<>>, <<"nix">>, <<"proc">>, <<"tmp">>, <<"dev">>, <<"home">>,
          <<"home", ".cache">>, <<"home", ".cache", "uv">>, <<"work">>,
          <<"run">>, <<"etc">> }

Files == { <<"nix", "sh">>, <<"proc", "stat">>, <<"tmp", "log">>, <<"dev", "tty">>,
           <<"dev", "null">>, <<"work", "src">>, <<"etc", "sh">> }

Nodes == Dirs \cup Files

\* a path that never exists
Ghost == <<"ghost">>

\* the paths whose absence is explored
Removable == { <<"run">>, <<"home", ".cache", "uv">>, <<"proc">>, <<"tmp">>,
               <<"dev", "tty">>, <<"dev", "null">>, <<"nix">>, <<"proc", "stat">> }

(***************************************************************************)
(* Values of the Rust types the code passes around.                        *)
(***************************************************************************)
\* Result<String, VarError> of env::var
Ok(v) == [ok |-> TRUE, val |-> v]

NotPresent == [ok |-> FALSE, val |-> <<>>]

\* a local of main that has not been assigned yet
Unassigned == <<"<unassigned>">>

\* Option<i32>
Some(c) == [some |-> TRUE, val |-> c]

None == [some |-> FALSE, val |-> 0]

\* unwrap_or that forgets the fallback
unwrap_or_zero(o, d) == IF o.some THEN o.val ELSE 0

unwrap_or(o, d) == IF o.some THEN o.val ELSE d

\* ExitStatus::code(): the exit code of a child that exited, None after a signal
code(kind, c) == IF kind = "exited" THEN Some(c) ELSE None

\* std::process::exit(c): the parent sees the low eight bits
ExitWith(c) == Some(c % 256)

(***************************************************************************)
(* Landlock access rights (landlock::AccessFs) by ABI version.             *)
(***************************************************************************)
ABI_V2 == 2

from_read(v) == IF v >= 1 THEN {"Execute", "ReadFile", "ReadDir"} ELSE {}

from_write(v) ==
    (IF v >= 1 THEN {"WriteFile", "RemoveDir", "RemoveFile", "MakeChar", "MakeDir",
                     "MakeReg", "MakeSock", "MakeFifo", "MakeBlock", "MakeSym"} ELSE {})
    \cup (IF v >= 2 THEN {"Refer"} ELSE {})
    \cup (IF v >= 3 THEN {"Truncate"} ELSE {})

from_all(v) == from_read(v) \cup from_write(v)

\* the rights that apply to a non-directory
ACCESS_FILE == {"ReadFile", "WriteFile", "Execute", "Truncate"}

\* Ruleset::default()
DefaultRuleset == [requested |-> {}, handled |-> {}, created |-> FALSE, rules |-> {}]

\* an unrestricted process
NoDomain == [enforced |-> FALSE, handled |-> {}, rules |-> {}]

\* path_beneath_rules(paths, access): one rule per path that can be opened, none
\* for the others; a non-directory gets the file rights of access only
path_beneath_rules(paths, access) ==
    { [path |-> p,
       access |-> IF p \in Files THEN access \cap ACCESS_FILE ELSE access]
      : p \in paths \cap fs }

\* add_rules under the default best-effort compatibility: each rule keeps the
\* rights the running kernel knows, and a rule left without rights is not
\* registered (none is on a kernel without Landlock)
add_rules(rs, rules) ==
    [rs EXCEPT !.rules = @ \cup { [path |-> r.path,
                                   access |-> r.access \cap from_all(kernelAbi)]
                                  : r \in { x \in rules :
                                             x.access \cap from_all(kernelAbi) # {} } }]

\* the paths of the first add_rules call (lines 92-105)
FullAccessPaths(root, runtime, home) ==
    { root, runtime, home \o <<".cache", "uv">>, <<"proc">>, <<"tmp">>,
      <<"dev", "tty">>, <<"dev", "null">> }

\* the paths of the second add_rules call (lines 106-109)
ReadOnlyPaths == { <<"nix">>, <<"proc", "stat">> }

(***************************************************************************)
(* The kernel's decision on one access right on one path under a domain:   *)
(* a right the domain does not handle is not restricted; a handled right   *)
(* is allowed when a rule on the path or on one of its ancestors grants it.*)
(***************************************************************************)
SandboxAllows(d, p, right) ==
    \/ ~d.enforced
    \/ right \notin d.handled
    \/ \E r \in d.rules : IsPrefix(r.path, p) /\ right \in r.access

(***************************************************************************)
(* The inputs of a run.                                                    *)
(***************************************************************************)
Commands == { <<"nix", "sh">>, <<"etc", "sh">>, Ghost \o <<"sh">> }

\* args[1] is the tool's own name (args[0] in the code), args[2] the command
ArgVectors ==
    { <<"devenv-sandbox">> }
    \cup { <<"devenv-sandbox", c>> : c \in Commands }
    \cup { <<"devenv-sandbox", <<"nix", "sh">>, "-c">> }

EnvVars == { "DEVENV_ROOT", "XDG_RUNTIME_DIR", "HOME" }

Environments ==
    { e \in [EnvVars -> {NotPresent} \cup { Ok(p) : p \in Nodes \cup {Ghost} }] :
        /\ e["DEVENV_ROOT"] \in { NotPresent, Ok(<<"work">>), Ok(<<"home">>), Ok(Ghost) }
        /\ e["XDG_RUNTIME_DIR"] \in { NotPresent, Ok(<<"run">>) }
        /\ e["HOME"] \in { NotPresent, Ok(<<"home">>) } }

FileSystems ==
    { { n \in Nodes : \A m \in M : ~IsPrefix(m, n) } :
        M \in { S \in SUBSET Removable : Cardinality(S) <= MaxMissing } }

ChildCodes == (0 .. MaxChildCode) \cup { 42, 255 }

\* what the child tries on a path, and the right the kernel checks for it
Ops == { "read", "list", "write", "execute", "create", "delete", "truncate" }

RightOf(op) ==
    CASE op = "read" -> "ReadFile"
      [] op = "list" -> "ReadDir"
      [] op = "write" -> "WriteFile"
      [] op = "execute" -> "Execute"
      [] op = "create" -> "MakeReg"
      [] op = "delete" -> "RemoveFile"
      [] op = "truncate" -> "Truncate"

\* the object the right is checked on: the directory of the entry for a removal
CheckedOn(op, p) == IF op = "delete" THEN Parent(p) ELSE p

\* "create" names the directory the new entry is made in
Applies(op, p) ==
    /\ p \in fs
    /\ IF op \in { "list", "create" } THEN p \in Dirs ELSE p \in Files

NoAccess == [path |-> <<>>, op |-> "none", ambient |-> FALSE, allowed |-> FALSE]

Init ==
    /\ args \in ArgVectors
    /\ env \in Environments
    /\ fs \in FileSystems
    /\ kernelAbi \in 0 .. MaxKernelAbi
    /\ pc = "args"
    /\ devenv_root = Unassigned
    /\ runtime_dir = Unassigned
    /\ home_dir = Unassigned
    /\ ruleset = DefaultRuleset
    /\ status = "none"
    /\ domain = NoDomain
    /\ child = "none"
    /\ childCode = 0
    /\ lastAccess = NoAccess
    /\ exitCode = None
    /\ failedStep = "none"
    /\ restrictCalls = 0
    /\ spawnCalls = 0
    /\ spawnDomain = NoDomain
    /\ childArgv = <<>>

(***************************************************************************)
(* main, lines 9-48: arguments and configuration.                          *)
(***************************************************************************)
\* std::process::exit(c)
Exit(c) ==
    /\ pc' = "exited"
    /\ exitCode' = ExitWith(c)

\* CheckArgs with the usage error leaving with 0
CheckArgs_UsageExitsZero ==
    /\ pc = "args"
    /\ IF Len(args) < 2
         THEN Exit(0)
         ELSE pc' = "env_root" /\ UNCHANGED exitCode
    /\ UNCHANGED <<args, env, fs, kernelAbi, devenv_root, runtime_dir, home_dir, ruleset,
                   status, domain, child, childCode, lastAccess, failedStep,
                   restrictCalls, spawnCalls, spawnDomain, childArgv>>

CheckArgs ==
    /\ pc = "args"
    /\ IF Len(args) < 2
         THEN Exit(1)
         ELSE pc' = "env_root" /\ UNCHANGED exitCode
    /\ UNCHANGED <<args, env, fs, kernelAbi, devenv_root, runtime_dir, home_dir, ruleset,
                   status, domain, child, childCode, lastAccess, failedStep,
                   restrictCalls, spawnCalls, spawnDomain, childArgv>>

GetDevenvRoot ==
    /\ pc = "env_root"
    /\ IF env["DEVENV_ROOT"].ok
         THEN /\ devenv_root' = env["DEVENV_ROOT"].val
              /\ pc' = "env_runtime"
              /\ UNCHANGED exitCode
         ELSE Exit(1) /\ UNCHANGED devenv_root
    /\ UNCHANGED <<args, env, fs, kernelAbi, runtime_dir, home_dir, ruleset,
                   status, domain, child, childCode, lastAccess, failedStep,
                   restrictCalls, spawnCalls, spawnDomain, childArgv>>

GetRuntimeDir ==
    /\ pc = "env_runtime"
    /\ IF env["XDG_RUNTIME_DIR"].ok
         THEN /\ runtime_dir' = env["XDG_RUNTIME_DIR"].val
              /\ pc' = "env_home"
              /\ UNCHANGED exitCode
         ELSE Exit(1) /\ UNCHANGED runtime_dir
    /\ UNCHANGED <<args, env, fs, kernelAbi, devenv_root, home_dir, ruleset,
                   status, domain, child, childCode, lastAccess, failedStep,
                   restrictCalls, spawnCalls, spawnDomain, childArgv>>

\* GetHomeDir with a default in place of the exit
GetHomeDir_Defaults ==
    /\ pc = "env_home"
    /\ home_dir' = IF env["HOME"].ok THEN env["HOME"].val ELSE <<"home">>
    /\ pc' = "verify"
    /\ UNCHANGED <<args, env, fs, kernelAbi, devenv_root, runtime_dir, ruleset,
                   status, domain, child, childCode, lastAccess, exitCode, failedStep,
                   restrictCalls, spawnCalls, spawnDomain, childArgv>>

GetHomeDir ==
    /\ pc = "env_home"
    /\ IF env["HOME"].ok
         THEN /\ home_dir' = env["HOME"].val
              /\ pc' = "verify"
              /\ UNCHANGED exitCode
         ELSE Exit(1) /\ UNCHANGED home_dir
    /\ UNCHANGED <<args, env, fs, kernelAbi, devenv_root, runtime_dir, ruleset,
                   status, domain, child, childCode, lastAccess, failedStep,
                   restrictCalls, spawnCalls, spawnDomain, childArgv>>

\* VerifyPath going straight to the launch
VerifyPath_SkipsSandbox ==
    /\ pc = "verify"
    /\ IF devenv_root \notin fs
         THEN Exit(1)
         ELSE pc' = "execute" /\ UNCHANGED exitCode
    /\ UNCHANGED <<args, env, fs, kernelAbi, devenv_root, runtime_dir, home_dir, ruleset,
                   status, domain, child, childCode, lastAccess, failedStep,
                   restrictCalls, spawnCalls, spawnDomain, childArgv>>

\* devenv_path.exists()
VerifyPath ==
    /\ pc = "verify"
    /\ IF devenv_root \notin fs
         THEN Exit(1)
         ELSE pc' = "handle_access" /\ UNCHANGED exitCode
    /\ UNCHANGED <<args, env, fs, kernelAbi, devenv_root, runtime_dir, home_dir, ruleset,
                   status, domain, child, childCode, lastAccess, failedStep,
                   restrictCalls, spawnCalls, spawnDomain, childArgv>>

(***************************************************************************)
(* setup_landlock_sandbox, lines 85-113: each step of the builder chain    *)
(* either returns the next value or an error that `?` hands to main, where *)
(* the Err arm (lines 63-66) exits with 1.                                 *)
(***************************************************************************)
SetupFails(step) ==
    /\ failedStep' = step
    /\ Exit(1)

\* HandleAccess declaring the read rights only
HandleAccess_ReadOnly ==
    /\ pc = "handle_access"
    /\ \E failed \in BOOLEAN :
         IF failed
           THEN SetupFails("handle_access") /\ UNCHANGED ruleset
           ELSE /\ ruleset' = [DefaultRuleset EXCEPT
                                 !.requested = from_read(ABI_V2),
                                 !.handled = from_read(ABI_V2) \cap from_all(kernelAbi)]
                /\ pc' = "create"
                /\ UNCHANGED <<exitCode, failedStep>>
    /\ UNCHANGED <<args, env, fs, kernelAbi, devenv_root, runtime_dir, home_dir,
                   status, domain, child, childCode, lastAccess,
                   restrictCalls, spawnCalls, spawnDomain, childArgv>>

\* Ruleset::default().handle_access(AccessFs::from_all(abi))?
HandleAccess ==
    /\ pc = "handle_access"
    /\ \E failed \in BOOLEAN :
         IF failed
           THEN SetupFails("handle_access") /\ UNCHANGED ruleset
           ELSE /\ ruleset' = [DefaultRuleset EXCEPT
                                 !.requested = from_all(ABI_V2),
                                 !.handled = from_all(ABI_V2) \cap from_all(kernelAbi)]
                /\ pc' = "create"
                /\ UNCHANGED <<exitCode, failedStep>>
    /\ UNCHANGED <<args, env, fs, kernelAbi, devenv_root, runtime_dir, home_dir,
                   status, domain, child, childCode, lastAccess,
                   restrictCalls, spawnCalls, spawnDomain, childArgv>>

\* .create()?
Create ==
    /\ pc = "create"
    /\ \E failed \in BOOLEAN :
         IF failed
           THEN SetupFails("create") /\ UNCHANGED ruleset
           ELSE /\ ruleset' = [ruleset EXCEPT !.created = TRUE]
                /\ pc' = "add_rules_all"
                /\ UNCHANGED <<exitCode, failedStep>>
    /\ UNCHANGED <<args, env, fs, kernelAbi, devenv_root, runtime_dir, home_dir,
                   status, domain, child, childCode, lastAccess,
                   restrictCalls, spawnCalls, spawnDomain, childArgv>>

\* AddRulesAll failing when one of its paths does not exist
AddRulesAll_NeedsEveryPath ==
    /\ pc = "add_rules_all"
    /\ \E failed \in BOOLEAN :
         IF failed
           THEN SetupFails("add_rules_all") /\ UNCHANGED ruleset
           ELSE IF ~(FullAccessPaths(devenv_root, runtime_dir, home_dir) \subseteq fs)
           THEN Exit(1) /\ UNCHANGED <<ruleset, failedStep>>
           ELSE /\ ruleset' = add_rules(ruleset,
                                path_beneath_rules(
                                    FullAccessPaths(devenv_root, runtime_dir, home_dir),
                                    from_all(ABI_V2)))
                /\ pc' = "add_rules_read"
                /\ UNCHANGED <<exitCode, failedStep>>
    /\ UNCHANGED <<args, env, fs, kernelAbi, devenv_root, runtime_dir, home_dir,
                   status, domain, child, childCode, lastAccess,
                   restrictCalls, spawnCalls, spawnDomain, childArgv>>

\* .add_rules(path_beneath_rules(&[devenv_root, ...], AccessFs::from_all(abi)))?
AddRulesAll ==
    /\ pc = "add_rules_all"
    /\ \E failed \in BOOLEAN :
         IF failed
           THEN SetupFails("add_rules_all") /\ UNCHANGED ruleset
           ELSE /\ ruleset' = add_rules(ruleset,
                                path_beneath_rules(
                                    FullAccessPaths(devenv_root, runtime_dir, home_dir),
                                    from_all(ABI_V2)))
                /\ pc' = "add_rules_read"
                /\ UNCHANGED <<exitCode, failedStep>>
    /\ UNCHANGED <<args, env, fs, kernelAbi, devenv_root, runtime_dir, home_dir,
                   status, domain, child, childCode, lastAccess,
                   restrictCalls, spawnCalls, spawnDomain, childArgv>>

\* .add_rules(path_beneath_rules(&["/nix", "/proc/stat"], AccessFs::from_read(abi)))?
AddRulesRead ==
    /\ pc = "add_rules_read"
    /\ \E failed \in BOOLEAN :
         IF failed
           THEN SetupFails("add_rules_read") /\ UNCHANGED ruleset
           ELSE /\ ruleset' = add_rules(ruleset,
                                path_beneath_rules(ReadOnlyPaths, from_read(ABI_V2)))
                /\ pc' = "restrict_self"
                /\ UNCHANGED <<exitCode, failedStep>>
    /\ UNCHANGED <<args, env, fs, kernelAbi, devenv_root, runtime_dir, home_dir,
                   status, domain, child, childCode, lastAccess,
                   restrictCalls, spawnCalls, spawnDomain, childArgv>>

\* the RulesetStatus restrict_self reports for a rule set on the running kernel
StatusOf(rs) ==
    IF kernelAbi = 0 THEN "NotEnforced"
    ELSE IF rs.requested \subseteq from_all(kernelAbi) THEN "FullyEnforced"
    ELSE "PartiallyEnforced"

\* RestrictSelf with the error dropped instead of propagated
RestrictSelf_DropsError ==
    /\ pc = "restrict_self"
    /\ restrictCalls' = restrictCalls + 1
    /\ \E failed \in BOOLEAN :
         IF failed
           THEN /\ failedStep' = "restrict_self"
                /\ status' = "NotEnforced"
                /\ pc' = "report"
                /\ UNCHANGED <<exitCode, domain>>
           ELSE /\ status' = StatusOf(ruleset)
                /\ domain' = IF kernelAbi = 0
                               THEN domain
                               ELSE [enforced |-> TRUE,
                                     handled |-> ruleset.handled,
                                     rules |-> ruleset.rules]
                /\ pc' = "report"
                /\ UNCHANGED <<exitCode, failedStep>>
    /\ UNCHANGED <<args, env, fs, kernelAbi, devenv_root, runtime_dir, home_dir, ruleset,
                   child, childCode, lastAccess, spawnCalls, spawnDomain, childArgv>>

\* .restrict_self()?  and  Ok(status.ruleset)
RestrictSelf ==
    /\ pc = "restrict_self"
    /\ restrictCalls' = restrictCalls + 1
    /\ \E failed \in BOOLEAN :
         IF failed
           THEN SetupFails("restrict_self") /\ UNCHANGED <<status, domain>>
           ELSE /\ status' = StatusOf(ruleset)
                /\ domain' = IF kernelAbi = 0
                               THEN domain
                               ELSE [enforced |-> TRUE,
                                     handled |-> ruleset.handled,
                                     rules |-> ruleset.rules]
                /\ pc' = "report"
                /\ UNCHANGED <<exitCode, failedStep>>
    /\ UNCHANGED <<args, env, fs, kernelAbi, devenv_root, runtime_dir, home_dir, ruleset,
                   child, childCode, lastAccess, spawnCalls, spawnDomain, childArgv>>

(***************************************************************************)
(* main, lines 51-83: report, launch, propagate the exit status.           *)
(***************************************************************************)
\* Report treating a kernel without Landlock as fatal
Report_RequiresLandlock ==
    /\ pc = "report"
    /\ IF status = "NotEnforced"
         THEN Exit(1)
         ELSE pc' = "execute" /\ UNCHANGED exitCode
    /\ UNCHANGED <<args, env, fs, kernelAbi, devenv_root, runtime_dir, home_dir, ruleset,
                   status, domain, child, childCode, lastAccess, failedStep,
                   restrictCalls, spawnCalls, spawnDomain, childArgv>>

\* the Ok arm of the match: all three statuses print and fall through
Report ==
    /\ pc = "report"
    /\ status \in { "FullyEnforced", "PartiallyEnforced", "NotEnforced" }
    /\ pc' = "execute"
    /\ UNCHANGED <<args, env, fs, kernelAbi, devenv_root, runtime_dir, home_dir, ruleset,
                   status, domain, child, childCode, lastAccess, exitCode, failedStep,
                   restrictCalls, spawnCalls, spawnDomain, childArgv>>

\* whether the kernel starts the command: it is an existing file the restriction
\* lets this process execute (osOk: the ordinary permissions and resources allow it)
CanSpawn(command, osOk) ==
    /\ osOk
    /\ command \in fs \cap Files
    /\ SandboxAllows(domain, command, "Execute")

\* ExecuteCommand trying a second time after a failed spawn
ExecuteCommand_Retries ==
    /\ pc = "execute"
    /\ spawnCalls' = spawnCalls + 1
    /\ spawnDomain' = domain
    /\ childArgv' = <<args[2]>> \o (IF Len(args) > 2 THEN SubSeq(args, 3, Len(args)) ELSE <<>>)
    /\ \E osOk \in BOOLEAN :
         IF CanSpawn(args[2], osOk)
           THEN /\ child' = "running"
                /\ pc' = "wait"
                /\ UNCHANGED exitCode
           ELSE IF spawnCalls = 0
                  THEN UNCHANGED <<pc, exitCode, child>>
                  ELSE Exit(1) /\ UNCHANGED child
    /\ UNCHANGED <<args, env, fs, kernelAbi, devenv_root, runtime_dir, home_dir, ruleset,
                   status, domain, childCode, lastAccess, failedStep, restrictCalls>>

\* execute_command(command, command_args): the spawn half of status(); an Err
\* reaches main's Err arm (lines 75-78)
ExecuteCommand ==
    /\ pc = "execute"
    /\ spawnCalls' = spawnCalls + 1
    /\ spawnDomain' = domain
    /\ childArgv' = <<args[2]>> \o (IF Len(args) > 2 THEN SubSeq(args, 3, Len(args)) ELSE <<>>)
    /\ \E osOk \in BOOLEAN :
         IF CanSpawn(args[2], osOk)
           THEN /\ child' = "running"
                /\ pc' = "wait"
                /\ UNCHANGED exitCode
           ELSE Exit(1) /\ UNCHANGED child
    /\ UNCHANGED <<args, env, fs, kernelAbi, devenv_root, runtime_dir, home_dir, ruleset,
                   status, domain, childCode, lastAccess, failedStep, restrictCalls>>

\* the child, restricted by the inherited domain, tries op on path p
ChildAccess ==
    /\ child = "running"
    /\ lastAccess = NoAccess
    /\ \E p \in Nodes, op \in Ops, ambient \in BOOLEAN :
         /\ Applies(op, p)
         /\ lastAccess' = [path |-> p, op |-> op, ambient |-> ambient,
                           allowed |-> SandboxAllows(domain, CheckedOn(op, p), RightOf(op))]
    /\ UNCHANGED <<args, env, fs, kernelAbi, pc, devenv_root, runtime_dir, home_dir,
                   ruleset, status, domain, child, childCode, exitCode, failedStep,
                   restrictCalls, spawnCalls, spawnDomain, childArgv>>

\* the attempt returns to the child with its verdict
ChildResume ==
    /\ child = "running"
    /\ lastAccess # NoAccess
    /\ lastAccess' = NoAccess
    /\ UNCHANGED <<args, env, fs, kernelAbi, pc, devenv_root, runtime_dir, home_dir,
                   ruleset, status, domain, child, childCode, exitCode, failedStep,
                   restrictCalls, spawnCalls, spawnDomain, childArgv>>

\* the child exits with code c
ChildExit ==
    /\ child = "running"
    /\ lastAccess = NoAccess
    /\ \E c \in ChildCodes :
         /\ child' = "exited"
         /\ childCode' = c
    /\ UNCHANGED <<args, env, fs, kernelAbi, pc, devenv_root, runtime_dir, home_dir,
                   ruleset, status, domain, lastAccess, exitCode, failedStep,
                   restrictCalls, spawnCalls, spawnDomain, childArgv>>

\* the child is terminated by a signal
ChildKilled ==
    /\ child = "running"
    /\ child' = "signaled"
    /\ lastAccess' = NoAccess
    /\ UNCHANGED <<args, env, fs, kernelAbi, pc, devenv_root, runtime_dir, home_dir,
                   ruleset, status, domain, childCode, exitCode, failedStep,
                   restrictCalls, spawnCalls, spawnDomain, childArgv>>

\* status() returns once the child has terminated;
\* std::process::exit(status.code().unwrap_or(1))
ExitWithStatus ==
    /\ pc = "wait"
    /\ child \in { "exited", "signaled" }
    /\ Exit(unwrap_or(code(child, childCode), 1))
    /\ UNCHANGED <<args, env, fs, kernelAbi, devenv_root, runtime_dir, home_dir, ruleset,
                   status, domain, child, childCode, lastAccess, failedStep,
                   restrictCalls, spawnCalls, spawnDomain, childArgv>>

Next ==
    \/ CheckArgs
    \/ GetDevenvRoot
    \/ GetRuntimeDir
    \/ GetHomeDir
    \/ VerifyPath
    \/ HandleAccess
    \/ Create
    \/ AddRulesAll
    \/ AddRulesRead
    \/ RestrictSelf
    \/ Report
    \/ ExecuteCommand
    \/ ChildAccess
    \/ ChildResume
    \/ ChildExit
    \/ ChildKilled
    \/ ExitWithStatus

Spec == Init /\ [][Next]_vars

(***************************************************************************)
(* Properties.                                                             *)
(***************************************************************************)
Statuses == { "FullyEnforced", "PartiallyEnforced", "NotEnforced" }

\* a required configuration value is absent or the sandbox root does not exist
ConfigMissing ==
    \/ \E v \in EnvVars : ~env[v].ok
    \/ env["DEVENV_ROOT"].val \notin fs

\* C1: restrict_self is called at most once; whenever a spawn has been
\* attempted, that one call has already returned a status; and from the spawn
\* on no rule is added, no enforcement is attempted and the restriction in
\* force does not change.
C1_EnforcedOnceBeforeSpawn ==
    /\ [](/\ restrictCalls <= 1
          /\ spawnCalls > 0 =>
               /\ restrictCalls = 1
               /\ failedStep = "none"
               /\ status \in Statuses)
    /\ [][spawnCalls > 0 =>
            /\ ruleset' = ruleset
            /\ restrictCalls' = restrictCalls
            /\ domain' = domain
            /\ status' = status]_vars

C1_Witness ==
    /\ child = "running"
    /\ restrictCalls = 1
    /\ status = "PartiallyEnforced"
    /\ lastAccess # NoAccess

\* C2: with a required configuration value absent or the sandbox root missing,
\* main never gets past the configuration checks: no rule set is built, nothing
\* is enforced, nothing is spawned, and the exit code is 1.
C2_ConfigErrorExitsEarly ==
    ConfigMissing =>
        /\ pc \in { "args", "env_root", "env_runtime", "env_home", "verify", "exited" }
        /\ ruleset = DefaultRuleset
        /\ domain = NoDomain
        /\ status = "none"
        /\ restrictCalls = 0
        /\ spawnCalls = 0
        /\ child = "none"
        /\ pc = "exited" => exitCode = Some(1)

C2_Witness ==
    /\ pc = "exited"
    /\ Len(args) >= 2
    /\ env["DEVENV_ROOT"].ok
    /\ env["DEVENV_ROOT"].val \in fs
    /\ env["XDG_RUNTIME_DIR"].ok
    /\ ~env["HOME"].ok
    /\ exitCode = Some(1)

\* C3: once the spawned command has terminated and the tool has exited, the
\* tool's exit code is the child's exit code if the child exited, and 1 if the
\* child was terminated by a signal.
C3_ExitCodePropagated ==
    (pc = "exited" /\ child \in { "exited", "signaled" }) =>
        exitCode = IF child = "exited" THEN Some(childCode) ELSE Some(1)

C3_Witness ==
    /\ pc = "exited"
    /\ child = "signaled"
    /\ exitCode = Some(1)

\* C4: after a PartiallyEnforced or NotEnforced status (NotEnforced is what a
\* kernel without Landlock yields) main always continues to the spawn: it cannot
\* exit without one spawn attempt of the given command and arguments, and its
\* exit code after the child has terminated is the child's, as under
\* FullyEnforced.
C4_DegradedIsNotFatal ==
    /\ (kernelAbi = 0 /\ status # "none") => status = "NotEnforced"
    /\ (status \in { "PartiallyEnforced", "NotEnforced" }) =>
        /\ pc \in { "report", "execute", "wait", "exited" }
        /\ pc = "report" => ENABLED Report
        /\ pc \in { "wait", "exited" } =>
             /\ spawnCalls = 1
             /\ childArgv = Tail(args)
        /\ (pc = "exited" /\ child \in { "exited", "signaled" }) =>
             exitCode = IF child = "exited" THEN Some(childCode) ELSE Some(1)

C4_Witness ==
    /\ kernelAbi = 0
    /\ status = "NotEnforced"
    /\ pc = "exited"
    /\ child = "exited"
    /\ childCode = 42
    /\ exitCode = Some(42)
    /\ Len(childArgv) = 2

\* C5: when a step of setup_landlock_sandbox returns an error, the process
\* exits with code 1 and the command is never spawned.
C5_SetupErrorIsFatal ==
    failedStep # "none" =>
        /\ pc = "exited"
        /\ exitCode = Some(1)
        /\ spawnCalls = 0
        /\ child = "none"

C5_Witness ==
    /\ failedStep = "restrict_self"
    /\ pc = "exited"
    /\ kernelAbi >= ABI_V2

\* the allowlist of the specification, for the configuration main has read
Allowlist == FullAccessPaths(devenv_root, runtime_dir, home_dir) \cup ReadOnlyPaths

\* the declared policy: each allowlisted path with the rights declared for it
DeclaredPolicy ==
    { <<p, from_all(ABI_V2)>> : p \in FullAccessPaths(devenv_root, runtime_dir, home_dir) }
    \cup { <<p, from_read(ABI_V2)>> : p \in ReadOnlyPaths }

\* C6: under FullyEnforced, an attempt of the child to read, write or execute a
\* path that is beneath no allowlisted path is denied by the sandbox whatever
\* the ambient permissions say, and an attempt whose checked object is beneath
\* an allowlisted path, with a right declared for that path, is not denied by
\* the sandbox.
C6_DefaultDenyOutsideAllowlist ==
    (status = "FullyEnforced" /\ lastAccess # NoAccess) =>
        /\ ( /\ lastAccess.op \in { "read", "write", "execute" }
             /\ \A a \in Allowlist : ~IsPrefix(a, lastAccess.path) )
           => ~lastAccess.allowed
        /\ ( \E e \in DeclaredPolicy :
                /\ IsPrefix(e[1], CheckedOn(lastAccess.op, lastAccess.path))
                /\ RightOf(lastAccess.op) \in e[2] )
           => lastAccess.allowed

C6_Witness ==
    /\ status = "FullyEnforced"
    /\ devenv_root = <<"work">>
    /\ lastAccess.op = "read"
    /\ lastAccess.path = <<"etc", "sh">>
    /\ lastAccess.ambient
    /\ ~lastAccess.allowed

\* C7: after enforcement, an attempt of the child on /nix or /proc/stat or
\* beneath them is allowed by the sandbox when it reads or lists and denied when
\* it writes, creates or deletes.
C7_ReadOnlyPathsRejectWrites ==
    ( /\ status = "FullyEnforced"
      /\ lastAccess # NoAccess
      /\ \E r \in ReadOnlyPaths : IsPrefix(r, lastAccess.path) )
    => /\ lastAccess.op \in { "read", "list" } => lastAccess.allowed
       /\ lastAccess.op \in { "write", "create", "delete" } => ~lastAccess.allowed

\* C8: after a failed spawn the tool has exited with code 1 having made exactly
\* one spawn attempt, no child runs, and the restriction in force is the one
\* that was in force at the attempt.
C8_SpawnFailureIsTerminal ==
    /\ spawnCalls <= 1
    /\ (spawnCalls > 0 /\ child = "none") =>
        /\ pc = "exited"
        /\ exitCode = Some(1)
        /\ spawnCalls = 1
        /\ domain = spawnDomain
        /\ lastAccess = NoAccess

C8_Witness ==
    /\ spawnCalls = 1
    /\ child = "none"
    /\ pc = "exited"
    /\ status = "FullyEnforced"
    /\ devenv_root = <<"work">>
    /\ args[2] = <<"etc", "sh">>

\* both add_rules calls have returned Ok
RulesRegistered ==
    \/ pc \in { "restrict_self", "report", "execute", "wait" }
    \/ pc = "exited" /\ restrictCalls = 1

\* construction never fails over a missing path: a run that got past the
\* configuration checks and exited without reaching restrict_self had a step
\* return an error, and a run without error goes on to the spawn
FailsOnlyOnStepError ==
    /\ (pc = "exited" /\ Len(args) >= 2 /\ ~ConfigMissing /\ restrictCalls = 0)
         => failedStep \in { "handle_access", "create", "add_rules_all", "add_rules_read" }
    /\ (pc = "exited" /\ Len(args) >= 2 /\ ~ConfigMissing /\ failedStep = "none")
         => spawnCalls = 1

\* C9 as stated, on a kernel that supports every declared right: whatever
\* optional paths are missing, the registered rules are exactly the declared
\* rights on every allowlisted path that exists, and construction fails only on
\* a step error.
C9_RulesKeepDeclaredRights ==
    /\ FailsOnlyOnStepError
    /\ (RulesRegistered /\ kernelAbi >= ABI_V2) =>
         ruleset.rules = { [path |-> e[1], access |-> e[2]] :
                           e \in { x \in DeclaredPolicy : x[1] \in fs } }

\* the rights of a declared entry that can be registered: those the running
\* kernel supports and, on a non-directory, those that apply to a file
Registrable(e) ==
    (e[2] \cap from_all(kernelAbi)) \cap (IF e[1] \in Files THEN ACCESS_FILE ELSE e[2])

\* C9 (amended): whatever optional paths are missing, the registered rules are
\* exactly, for every allowlisted path that exists, the declared rights reduced
\* to the rights the running kernel supports and, on a non-directory, to the
\* file rights; no rule is registered for a missing path, and construction
\* fails only on a step error.
C9_MissingPathsAreOmitted ==
    /\ FailsOnlyOnStepError
    /\ RulesRegistered =>
         ruleset.rules = { [path |-> e[1], access |-> Registrable(e)] :
                           e \in { x \in DeclaredPolicy :
                                     x[1] \in fs /\ Registrable(x) # {} } }

C9_Witness ==
    /\ pc = "wait"
    /\ status = "FullyEnforced"
    /\ <<"tmp">> \notin fs
    /\ <<"home", ".cache", "uv">> \notin fs
    /\ Cardinality(ruleset.rules) = Cardinality(DeclaredPolicy) - 2

\* C10: the tool exits with 0 only after a child that was spawned exited with
\* 0; an exit without a child that exited normally is an exit with 1.
C10_ZeroOnlyFromChild ==
    /\ exitCode = Some(0) => (spawnCalls = 1 /\ child = "exited" /\ childCode = 0)
    /\ (pc = "exited" /\ child # "exited") => exitCode = Some(1)
    /\ pc = "exited" <=> exitCode # None

C10_Witness ==
    /\ pc = "exited"
    /\ exitCode = Some(0)
    /\ child = "exited"

====
